---- MODULE Spec2Model ----
(***************************************************************************)
(* The scene-tree editor of src/src/App.tsx: the forest of Components held *)
(* in React state, the operations on it (addPrimitive, updateComponent,    *)
(* reorder), the views that call them (ModelTree, PropertyEditor) and the  *)
(* export path (buildScene, onExport, downloadFile).                       *)
(*                                                                         *)
(* Spec  is the running application: it starts from the empty forest and   *)
(*       every step is one event handler, one exporter callback or one     *)
(*       render.                                                           *)
(* SpecF applies one operation to a forest drawn from a bounded set of     *)
(*       nested forests; the application itself never builds a nested      *)
(*       forest (addPrimitive only appends childless roots), so the        *)
(*       recursive descent of the operations is exercised here.            *)
(***************************************************************************)
EXTENDS Integers, Sequences, FiniteSets, Bags, TLC

\* ------------------------------------------------------------------ bounds

\* Nodes the application's forest may hold (caps addPrimitive).
MaxNodes == 2
\* Property-editor changes handled in one run.
MaxEdits == 1
\* Export requests handled in one run.
MaxExports == 2
\* How many distinct tokens the identifier generator may return.
NumTokens == 2
\* Nodes of the forests SpecF starts from.
MaxInitNodes == 5

\* ------------------------------------------------------------------ values

\* JavaScript's null (selectedComponentId, parentId).
Null == "<null>"

\* The value a destructured empty array yields: const [moved] = [].
Undefined == [undefined |-> TRUE]

\* An element of a Component[] that is a Component (not undefined).
IsNode(c) == "id" \in DOMAIN c

\* A condition on a string | null: null and "" are falsy.
Falsy(v) == v = Null \/ v = ""

PrimitiveType == {"cube", "sphere", "cylinder", "cone", "d20"}

\* type.charAt(0).toUpperCase() + type.slice(1)
Capitalize(type) ==
    CASE type = "cube" -> "Cube"
      [] type = "sphere" -> "Sphere"
      [] type = "cylinder" -> "Cylinder"
      [] type = "cone" -> "Cone"
      [] type = "d20" -> "D20"
      [] OTHER -> "Group"

\* Identifiers the labelled forests and the generator draw from.
IdPool == <<"a", "b", "c", "d", "e", "f", "g", "h">>

\* Math.random().toString(36).substring(2, 9): a token of up to seven
\* base-36 digits.  Nothing in addPrimitive compares it with the ids in
\* use, so a call may return any token, one in use included.
Tokens == {IdPool[i] : i \in 1..NumTokens}

\* The record addPrimitive builds.
newComponent(type, id) ==
    [id |-> id, name |-> Capitalize(type), type |-> type,
     position |-> <<0, 0, 0>>, rotation |-> <<0, 0, 0>>,
     scale |-> <<1, 1, 1>>, children |-> <<>>]

\* ------------------------------------------------------- forest operations

RECURSIVE findComponentById(_, _)
\* Depth-first, pre-order; <<>> stands for null, <<c>> for a hit.
findComponentById(components, id) ==
    IF components = <<>> THEN <<>>
    ELSE LET comp == Head(components) IN
         IF comp.id = id THEN <<comp>>
         ELSE LET found == findComponentById(comp.children, id) IN
              IF found # <<>> THEN found
              ELSE findComponentById(Tail(components), id)

RECURSIVE updateRecursive(_, _)
\* updateComponent's updateRecursive.
updateRecursive(components, updatedComponent) ==
    [i \in 1..Len(components) |->
        LET comp == components[i] IN
        IF comp.id = updatedComponent.id THEN updatedComponent
        ELSE IF Len(comp.children) > 0
             THEN [comp EXCEPT !.children =
                       updateRecursive(comp.children, updatedComponent)]
             ELSE comp]

\* Array.prototype.splice's start: negative counts from the end, and the
\* result is clamped to 0..len.
SpliceStart(i, len) ==
    IF i < 0 THEN (IF len + i < 0 THEN 0 ELSE len + i)
    ELSE IF i > len THEN len ELSE i

\* A bug variant: the moved element is inserted without being removed.
reorderListKeeping(list, fromIndex, toIndex) ==
    LET len == Len(list)
        s == SpliceStart(fromIndex, len)
        moved == IF s < len THEN list[s + 1] ELSE Undefined
        t == SpliceStart(toIndex, len)
    IN  SubSeq(list, 1, t) \o <<moved>> \o SubSeq(list, t + 1, len)

\* reorder's reorderList: splice(fromIndex, 1), then splice(toIndex, 0, moved).
\* When the first splice removes nothing, moved is undefined and is inserted.
reorderList(list, fromIndex, toIndex) ==
    LET len == Len(list)
        s == SpliceStart(fromIndex, len)
        rest == IF s < len
                THEN SubSeq(list, 1, s) \o SubSeq(list, s + 2, len)
                ELSE list
        moved == IF s < len THEN list[s + 1] ELSE Undefined
        t == SpliceStart(toIndex, Len(rest))
    IN  SubSeq(rest, 1, t) \o <<moved>> \o SubSeq(rest, t + 1, Len(rest))

RECURSIVE reorderRecursive(_, _, _, _)
\* reorder's updateRecursive.
reorderRecursive(components, parentId, fromIndex, toIndex) ==
    IF Falsy(parentId) THEN reorderList(components, fromIndex, toIndex)
    ELSE [i \in 1..Len(components) |->
            LET comp == components[i] IN
            IF comp.id = parentId
            THEN [comp EXCEPT !.children =
                      reorderList(comp.children, fromIndex, toIndex)]
            ELSE IF Len(comp.children) > 0
                 THEN [comp EXCEPT !.children =
                           reorderRecursive(comp.children, parentId,
                                            fromIndex, toIndex)]
                 ELSE comp]

\* ----------------------------------------------------------- model tree

\* What a ModelTree's onReorder prop does with the parentId it is called
\* with.  The root tree's prop is reorder itself (top); a nested tree's prop
\* is the wrapper (parentId, from, to) => onReorder(comp.id, from, to),
\* which drops its own first argument and calls the enclosing prop with the
\* id of the node the nested tree hangs under.
ApplyOnReorder(onReorder, parentId) ==
    IF onReorder.top THEN parentId ELSE onReorder.target

RECURSIVE ModelTree(_, _, _)
\* The up and down buttons a ModelTree renders for components and, through
\* the nested trees, for all their descendants: where the button is (the
\* node's path), whether it is disabled, and the reorder call a press makes.
ModelTree(components, onReorder, at) ==
    UNION {
        LET comp == components[index + 1]
            path == Append(at, index + 1)
        IN  { [path |-> path, dir |-> "up",
               disabled |-> (index = 0),
               parentId |-> ApplyOnReorder(onReorder, Null),
               fromIndex |-> index, toIndex |-> index - 1],
              [path |-> path, dir |-> "down",
               disabled |-> (index = Len(components) - 1),
               parentId |-> ApplyOnReorder(onReorder, Null),
               fromIndex |-> index, toIndex |-> index + 1] }
            \cup
            (IF Len(comp.children) > 0
             THEN ModelTree(comp.children,
                            [top |-> FALSE,
                             target |-> ApplyOnReorder(onReorder, comp.id)],
                            path)
             ELSE {})
        : index \in 0..(Len(components) - 1) }

\* The tree the App renders: <ModelTree components={model} onReorder={reorder}/>.
RootModelTree(components) ==
    ModelTree(components, [top |-> TRUE, target |-> Null], <<>>)

\* ------------------------------------------------------- property editor

\* The inputs the editor renders: name, and one per axis of each transform.
InputNames ==
    {[prop |-> "name", axis |-> ""]} \cup
    [prop : {"position", "rotation", "scale"}, axis : {"x", "y", "z"}]

\* What parseFloat returns for text that is not a number.
NaN == 999999

\* Text a user may leave in an input.
InputValues == {"2", ""}

\* The inputs the runs type into: the text input and one number input.
EditedInputs ==
    {[prop |-> "name", axis |-> ""], [prop |-> "scale", axis |-> "z"]}

\* The Add buttons the runs press.
AddedTypes == {"cube", "d20"}

\* parseFloat on the texts above.
parseFloat(value) == IF value = "2" THEN 2 ELSE NaN

\* handleInputChange's updatedComponent: a copy of the editor's component
\* with the named field set; an axis input replaces the whole 3-tuple.
updatedComponentOf(component, name, value) ==
    IF name.axis # ""
    THEN LET axisIndex == IF name.axis = "x" THEN 0
                          ELSE IF name.axis = "y" THEN 1 ELSE 2
         IN  [component EXCEPT ![name.prop][axisIndex + 1] = parseFloat(value)]
    ELSE [component EXCEPT !.name = value]

\* The editor's effect: the component the selection resolves to, or null.
selectedEffect(components, selectedId) ==
    IF ~Falsy(selectedId) THEN findComponentById(components, selectedId)
    ELSE <<>>

\* ------------------------------------------------------ scene materializer

\* The geometry buildScene's switch constructs; <<>> when mesh stays null.
Geometry(type) ==
    CASE type = "cube" -> <<"BoxGeometry", 1, 1, 1>>
      [] type = "sphere" -> <<"SphereGeometry", 1, 32, 32>>
      [] type = "cylinder" -> <<"CylinderGeometry", 1, 1, 2, 32>>
      [] type = "cone" -> <<"ConeGeometry", 1, 2, 32>>
      [] type = "d20" -> <<"IcosahedronGeometry", 1, 0>>
      [] OTHER -> <<>>

RECURSIVE buildSceneFlat(_)
\* A bug variant: children are not descended into.
buildSceneFlat(components) ==
    IF components = <<>> THEN <<>>
    ELSE LET comp == Head(components)
             meshes == IF Geometry(comp.type) # <<>>
                       THEN << [object |-> "Mesh",
                                geometry |-> Geometry(comp.type),
                                position |-> comp.position,
                                rotation |-> comp.rotation,
                                scale |-> comp.scale] >>
                       ELSE <<>>
         IN  meshes \o buildSceneFlat(Tail(components))

RECURSIVE buildScene(_)
\* The objects buildScene(components, parent) adds to parent, in order: per
\* component its mesh (unless its type is group), then, when it has
\* children, a Group holding what buildScene adds for them.
buildScene(components) ==
    IF components = <<>> THEN <<>>
    ELSE LET comp == Head(components)
             meshes == IF Geometry(comp.type) # <<>>
                       THEN << [object |-> "Mesh",
                                geometry |-> Geometry(comp.type),
                                position |-> comp.position,
                                rotation |-> comp.rotation,
                                scale |-> comp.scale] >>
                       ELSE <<>>
             groups == IF Len(comp.children) > 0
                       THEN << [object |-> "Group",
                                children |-> buildScene(comp.children)] >>
                       ELSE <<>>
         IN  meshes \o groups \o buildScene(Tail(components))

\* const scene = new THREE.Scene(); buildScene(model, scene).
SceneOf(components) ==
    [object |-> "Scene", children |-> buildScene(components)]

\* What an exporter's parse produces for a scene, and the file it is
\* offered as: the encoders are the library's, so the payload is kept as
\* the format together with the scene graph it was computed from.
Encode(format, scene) ==
    CASE format = "obj" ->
            [filename |-> "model.obj", mimeType |-> "text/plain",
             data |-> scene]
      [] format = "glb" ->
            [filename |-> "model.glb",
             mimeType |-> "application/octet-stream", data |-> scene]
      [] OTHER ->
            [filename |-> "model.stl", mimeType |-> "application/sla",
             data |-> scene]

\* ------------------------------------------------------------- file hand-off

\* downloadFile (and the same steps in the glb callback): the object URLs
\* that stay unrevoked when a hand-off ends.  createObjectURL adds url;
\* revokeObjectURL is the last statement, reached only when link.click()
\* returns.
downloadFile(liveUrls, url, clickReturns) ==
    IF clickReturns THEN (liveUrls \cup {url}) \ {url}
    ELSE liveUrls \cup {url}

\* ------------------------------------------------------------------ state

VARIABLES
    model,                 \* useState<Component[]>: the forest, every queued update applied
    selectedComponentId,   \* useState<string | null>
    rModel,                \* the model the last render gave the handlers and the views
    component,             \* PropertyEditor's useState: <<>> or <<its copy of the selected node>>
    jobs,                  \* glb exports whose completion callback has not run yet
    liveUrls,              \* object URLs created and not revoked
    nExports,              \* export requests so far
    nEdits,                \* property-editor changes so far
    last                   \* the handler that ran last, what it was given and what it delivered

vars == <<model, selectedComponentId, rModel, component, jobs, liveUrls,
          nExports, nEdits, last>>

\* The record kept of the last handler; a handler fills the fields it has.
NoOp ==
    [op |-> "init", pre |-> <<>>, updated |-> <<>>, parentId |-> Null,
     fromIndex |-> 0, toIndex |-> 0, path |-> <<>>, dir |-> "",
     type |-> "", id |-> "", format |-> "", outcome |-> "",
     scene |-> <<>>, payload |-> <<>>, atTrigger |-> <<>>]

RECURSIVE NodeCount(_)
\* Nodes of a forest, at every depth.
NodeCount(components) ==
    IF components = <<>> THEN 0
    ELSE (IF IsNode(Head(components))
          THEN 1 + NodeCount(Head(components).children) ELSE 1)
         + NodeCount(Tail(components))

RECURSIVE IdsOf(_)
\* The ids a forest's nodes carry.
IdsOf(components) ==
    IF components = <<>> THEN {}
    ELSE (IF IsNode(Head(components))
          THEN {Head(components).id} \cup IdsOf(Head(components).children)
          ELSE {})
         \cup IdsOf(Tail(components))

\* useState<Component[]>([]), useState<string | null>(null), and the first
\* render of it.
Init ==
    /\ model = <<>>
    /\ selectedComponentId = Null
    /\ rModel = <<>>
    /\ component = <<>>
    /\ jobs = {}
    /\ liveUrls = {}
    /\ nExports = 0
    /\ nEdits = 0
    /\ last = NoOp

\* ----------------------------------------------------------------- events

\* addPrimitive(type), with id the token Math.random yields:
\* setModel(prev => [...prev, newComponent]).
addPrimitive(type, id) ==
    /\ NodeCount(model) < MaxNodes
    /\ model' = Append(model, newComponent(type, id))
    /\ last' = [NoOp EXCEPT !.op = "addPrimitive", !.pre = model,
                            !.type = type, !.id = id]
    /\ UNCHANGED <<selectedComponentId, rModel, component, jobs, liveUrls,
                   nExports, nEdits>>

\* A click on a tree label or on a mesh: setSelectedComponentId(id).
select(id) ==
    /\ id \in IdsOf(rModel)
    /\ selectedComponentId' = id
    /\ last' = [NoOp EXCEPT !.op = "view"]
    /\ UNCHANGED <<model, rModel, component, jobs, liveUrls, nExports, nEdits>>

\* onPointerMissed: setSelectedComponentId(null).
clearSelection ==
    /\ selectedComponentId # Null
    /\ selectedComponentId' = Null
    /\ last' = [NoOp EXCEPT !.op = "view"]
    /\ UNCHANGED <<model, rModel, component, jobs, liveUrls, nExports, nEdits>>

\* updateComponent(updatedComponent), as a value: the forest handed to
\* setModel, rebuilt from the model of the render that made the handler.
updateComponent(components, updatedComponent) ==
    updateRecursive(components, updatedComponent)

\* reorder(parentId, fromIndex, toIndex), as a value: what the updater
\* setModel(prev => updateRecursive(prev)) returns for prev.
reorder(prev, parentId, fromIndex, toIndex) ==
    reorderRecursive(prev, parentId, fromIndex, toIndex)

\* A change of the editor's input `name` to `value`: handleInputChange,
\* then onUpdate = updateComponent.
handleInputChange(name, value) ==
    /\ component # <<>>
    /\ nEdits < MaxEdits
    /\ LET updatedComponent == updatedComponentOf(component[1], name, value)
       IN  /\ model' = updateComponent(rModel, updatedComponent)
           /\ last' = [NoOp EXCEPT !.op = "updateComponent", !.pre = rModel,
                                   !.updated = <<updatedComponent>>]
    /\ nEdits' = nEdits + 1
    /\ UNCHANGED <<selectedComponentId, rModel, component, jobs, liveUrls,
                   nExports>>

\* A press of an enabled up or down button of the rendered tree.
pressButton(button) ==
    /\ button \in RootModelTree(rModel)
    /\ ~button.disabled
    /\ model' = reorder(model, button.parentId, button.fromIndex,
                        button.toIndex)
    /\ last' = [NoOp EXCEPT !.op = "pressButton", !.pre = model,
                            !.path = button.path, !.dir = button.dir,
                            !.parentId = button.parentId,
                            !.fromIndex = button.fromIndex,
                            !.toIndex = button.toIndex]
    /\ UNCHANGED <<selectedComponentId, rModel, component, jobs, liveUrls,
                   nExports, nEdits>>

\* A render of App and its children, and the editor's effect after it.
render ==
    /\ \/ rModel # model
       \/ component # selectedEffect(model, selectedComponentId)
    /\ rModel' = model
    /\ component' = selectedEffect(model, selectedComponentId)
    /\ last' = [NoOp EXCEPT !.op = "view"]
    /\ UNCHANGED <<model, selectedComponentId, jobs, liveUrls, nExports, nEdits>>

\* How a synchronous export request may end: the exporter's parse throws,
\* link.click() throws after the URL was created, or every statement runs.
Outcomes == {"completes", "parseThrows", "clickThrows"}

\* A bug variant: the forest is consumed while it is materialized.
onExportConsuming(format, outcome) ==
    /\ nExports < MaxExports
    /\ format \in {"obj", "cad"}
    /\ outcome \in Outcomes
    /\ nExports' = nExports + 1
    /\ model' = <<>>
    /\ liveUrls' = liveUrls
    /\ jobs' = jobs
    /\ last' = [NoOp EXCEPT !.op = "onExport", !.pre = rModel,
                            !.format = format, !.outcome = outcome,
                            !.scene = <<SceneOf(rModel)>>]
    /\ UNCHANGED <<selectedComponentId, rModel, component, nEdits>>

\* onExport(format): the scene is built from the handler's model; obj and
\* cad are parsed and handed off before the handler returns, glb leaves a
\* callback with the exporter.
onExport(format, outcome) ==
    /\ nExports < MaxExports
    /\ nExports' = nExports + 1
    /\ LET url == nExports + 1
           scene == SceneOf(rModel)
           entry == [NoOp EXCEPT !.op = "onExport", !.pre = rModel,
                                 !.format = format, !.outcome = outcome,
                                 !.scene = <<scene>>]
       IN  \/ /\ format \in {"obj", "cad"}
              /\ outcome = "parseThrows"
              /\ UNCHANGED <<jobs, liveUrls>>
              /\ last' = entry
           \/ /\ format \in {"obj", "cad"}
              /\ outcome = "clickThrows"
              /\ liveUrls' = downloadFile(liveUrls, url, FALSE)
              /\ UNCHANGED jobs
              /\ last' = entry
           \/ /\ format \in {"obj", "cad"}
              /\ outcome = "completes"
              /\ liveUrls' = downloadFile(liveUrls, url, TRUE)
              /\ UNCHANGED jobs
              /\ last' = [entry EXCEPT !.payload = <<Encode(format, scene)>>]
           \/ /\ format = "glb"
              /\ outcome = "parseThrows"
              /\ UNCHANGED <<jobs, liveUrls>>
              /\ last' = entry
           \/ /\ format = "glb"
              /\ outcome = "completes"
              /\ jobs' = jobs \cup {[n |-> url, scene |-> scene,
                                     atTrigger |-> rModel]}
              /\ UNCHANGED liveUrls
              /\ last' = entry
    /\ UNCHANGED <<model, selectedComponentId, rModel, component, nEdits>>

\* A bug variant: the callback encodes the forest as it is when it runs.
glbCallbackLate(job, clickReturns) ==
    /\ job \in jobs
    /\ jobs' = jobs \ {job}
    /\ liveUrls' = downloadFile(liveUrls, job.n, clickReturns)
    /\ last' = [NoOp EXCEPT !.op = "glbCallback", !.format = "glb",
                   !.outcome = IF clickReturns THEN "completes"
                               ELSE "clickThrows",
                   !.scene = <<SceneOf(rModel)>>,
                   !.payload = <<Encode("glb", SceneOf(rModel))>>,
                   !.atTrigger = job.atTrigger, !.pre = job.atTrigger]
    /\ UNCHANGED <<model, selectedComponentId, rModel, component, nExports,
                   nEdits>>

\* The callback GLTFExporter.parse was given, run for the export `job`:
\* the result is wrapped in a Blob and handed off like downloadFile does.
glbCallback(job, clickReturns) ==
    /\ job \in jobs
    /\ jobs' = jobs \ {job}
    /\ liveUrls' = downloadFile(liveUrls, job.n, clickReturns)
    /\ last' = [NoOp EXCEPT !.op = "glbCallback", !.format = "glb",
                   !.outcome = IF clickReturns THEN "completes"
                               ELSE "clickThrows",
                   !.scene = <<job.scene>>,
                   !.payload = <<Encode("glb", job.scene)>>,
                   !.atTrigger = job.atTrigger, !.pre = job.atTrigger]
    /\ UNCHANGED <<model, selectedComponentId, rModel, component, nExports,
                   nEdits>>

\* ------------------------------------------------------------ application

Next ==
    \/ \E type \in AddedTypes, id \in Tokens : addPrimitive(type, id)
    \/ \E id \in Tokens : select(id)
    \/ clearSelection
    \/ \E name \in EditedInputs, value \in InputValues :
          handleInputChange(name, value)
    \/ \E button \in RootModelTree(rModel) : pressButton(button)
    \/ \E format \in {"obj", "glb", "cad"}, outcome \in Outcomes :
          onExport(format, outcome)
    \/ \E job \in jobs, clickReturns \in BOOLEAN :
          glbCallback(job, clickReturns)
    \/ render

Spec == Init /\ [][Next]_vars

\* ------------------------------------------------- operations on any forest

\* The node types of the forests SpecF starts from: a leaf kind and group.
ShapeTypes == {"cube", "group"}

RECURSIVE Shapes(_)
\* The ordered forests of n nodes, each node a type and its children.
Shapes(n) ==
    IF n = 0 THEN {<<>>}
    ELSE UNION {
            { <<[type |-> t, children |-> kids]>> \o rest :
                t \in ShapeTypes, kids \in Shapes(k),
                rest \in Shapes(n - 1 - k) }
            : k \in 0..(n - 1) }

RECURSIVE ShapeSize(_)
ShapeSize(shape) ==
    IF shape = <<>> THEN 0
    ELSE 1 + ShapeSize(Head(shape).children) + ShapeSize(Tail(shape))

RECURSIVE Label(_, _)
\* A shape made a Component[]: ids in pre-order from IdPool, so that no two
\* nodes share one, and a transform that differs from node to node.
Label(shape, start) ==
    IF shape = <<>> THEN <<>>
    ELSE LET h == Head(shape) IN
         << [id |-> IdPool[start], name |-> Capitalize(h.type),
             type |-> h.type,
             position |-> <<start, 0, 0>>, rotation |-> <<0, start, 0>>,
             scale |-> <<1, 1, start>>,
             children |-> Label(h.children, start + 1)] >>
         \o Label(Tail(shape), start + 1 + ShapeSize(h.children))

\* The forests SpecF starts from: every shape of up to MaxInitNodes nodes.
Forests == UNION {{Label(shape, 1) : shape \in Shapes(n)} : n \in 0..MaxInitNodes}

\* An id no forest of Forests uses, and one for a child that an update
\* brings along.
AbsentId == IdPool[Len(IdPool)]
BroughtId == IdPool[Len(IdPool) - 1]

\* The records updateComponent is called with: the id of any node of the
\* forest, the empty string or an id the forest lacks; with and without a
\* child of their own.
UpdateArgs(components) ==
    [id : IdsOf(components) \cup {AbsentId, ""},
     name : {"Edited"}, type : ShapeTypes,
     position : {<<2, 0, 0>>}, rotation : {<<0, 0, 0>>},
     scale : {<<1, 1, 1>>},
     children : {<<>>, <<newComponent("sphere", BroughtId)>>}]

\* The parents reorder is called with.
ParentArgs(components) == IdsOf(components) \cup {Null, AbsentId, ""}

\* The largest index reorder is called with; the smallest is -1.
MaxIndex == 3
IndexArgs == (0 - 1)..MaxIndex

\* A state as a render leaves it, for a forest of Forests.
InitF ==
    /\ model \in Forests
    /\ selectedComponentId = Null
    /\ rModel = model
    /\ component = <<>>
    /\ jobs = {}
    /\ liveUrls = {}
    /\ nExports = 0
    /\ nEdits = 0
    /\ last = NoOp

\* updateComponent(updatedComponent), called on the rendered forest.
callUpdateComponent(updatedComponent) ==
    /\ model' = updateComponent(rModel, updatedComponent)
    /\ last' = [NoOp EXCEPT !.op = "updateComponent", !.pre = rModel,
                            !.updated = <<updatedComponent>>]
    /\ UNCHANGED <<selectedComponentId, rModel, component, jobs, liveUrls,
                   nExports, nEdits>>

\* reorder(parentId, fromIndex, toIndex), called on the forest.
callReorder(parentId, fromIndex, toIndex) ==
    /\ model' = reorder(model, parentId, fromIndex, toIndex)
    /\ last' = [NoOp EXCEPT !.op = "reorder", !.pre = model,
                            !.parentId = parentId,
                            !.fromIndex = fromIndex, !.toIndex = toIndex]
    /\ UNCHANGED <<selectedComponentId, rModel, component, jobs, liveUrls,
                   nExports, nEdits>>

\* One operation, applied to the forest the run started from.
NextF ==
    \/ /\ last.op = "init"
       /\ \E updatedComponent \in UpdateArgs(rModel) :
             callUpdateComponent(updatedComponent)
    \/ /\ last.op = "init"
       /\ \E parentId \in ParentArgs(model), fromIndex \in IndexArgs,
             toIndex \in IndexArgs :
             callReorder(parentId, fromIndex, toIndex)
    \/ /\ last.op = "init"
       /\ \E button \in RootModelTree(rModel) : pressButton(button)
    \/ /\ last.op = "init"
       /\ \E format \in {"obj", "glb", "cad"}, outcome \in Outcomes :
             onExport(format, outcome)

SpecF == InitF /\ [][NextF]_vars

\* ------------------------------------------------ vocabulary of the claims

RECURSIVE Paths(_)
\* The places of a forest: <<i>> is root i, Append(p, j) child j of p
\* (counted from 1).
Paths(components) ==
    UNION { {<<i>>} \cup
            { <<i>> \o q :
                q \in (IF IsNode(components[i])
                       THEN Paths(components[i].children) ELSE {}) }
          : i \in 1..Len(components) }

RECURSIVE NodeAt(_, _)
NodeAt(components, path) ==
    IF Len(path) = 1 THEN components[path[1]]
    ELSE NodeAt(components[path[1]].children, Tail(path))

IsPrefix(p, q) == Len(p) <= Len(q) /\ SubSeq(q, 1, Len(p)) = p

ParentPath(path) == SubSeq(path, 1, Len(path) - 1)

\* The sibling sequence under a place; under <<>>, the roots.
SiblingsUnder(components, parentPath) ==
    IF parentPath = <<>> THEN components
    ELSE NodeAt(components, parentPath).children

RECURSIVE SetSiblings(_, _, _)
\* The forest with the sibling sequence under a place exchanged.
SetSiblings(components, parentPath, siblings) ==
    IF parentPath = <<>> THEN siblings
    ELSE [i \in 1..Len(components) |->
            IF i = parentPath[1]
            THEN [components[i] EXCEPT !.children =
                      SetSiblings(components[i].children, Tail(parentPath),
                                  siblings)]
            ELSE components[i]]

\* A node's record without its children, and how many children it has.
OwnRecord(c) ==
    [id |-> c.id, name |-> c.name, type |-> c.type, position |-> c.position,
     rotation |-> c.rotation, scale |-> c.scale, arity |-> Len(c.children)]

\* The id of an element of a sibling sequence; undefined has none.
IdOrUndefined(c) == IF IsNode(c) THEN c.id ELSE "<undefined>"

\* Two sibling sequences hold the same ids, each as often.
SameIdMultiset(s, t) ==
    /\ Len(s) = Len(t)
    /\ \A k \in DOMAIN s :
          Cardinality({i \in DOMAIN s : IdOrUndefined(s[i]) = IdOrUndefined(s[k])})
          = Cardinality({i \in DOMAIN t : IdOrUndefined(t[i]) = IdOrUndefined(s[k])})

\* The places of a forest whose node carries id.
PlacesOf(components, id) ==
    {p \in Paths(components) : NodeAt(components, p).id = id}

\* ------------------------------------------------------------------ claims

\* C1: after updateComponent(U), where U's id is the id of a node X of the
\* forest F the call was given, U stands at X's place (with U's own
\* children), the number of roots is unchanged, and every node of F outside
\* X's subtree is still at its place with its record and as many children.
UpdateReplacesOnlyX ==
    last.op = "updateComponent" =>
        LET F == last.pre
            U == last.updated[1]
        IN  \A x \in PlacesOf(F, U.id) :
                /\ Len(model) = Len(F)
                /\ x \in Paths(model)
                /\ NodeAt(model, x) = U
                /\ \A q \in Paths(F) :
                      ~IsPrefix(x, q) =>
                          /\ q \in Paths(model)
                          /\ OwnRecord(NodeAt(model, q)) = OwnRecord(NodeAt(F, q))
                /\ \A q \in Paths(model) : ~IsPrefix(x, q) => q \in Paths(F)

\* C2: updateComponent with a record whose id no node carries, and reorder
\* with a parentId (not null) that no node carries, leave the forest as it
\* was.
AbsentIdChangesNothing ==
    /\ (last.op = "updateComponent" /\ last.updated[1].id \notin IdsOf(last.pre))
          => model = last.pre
    /\ (last.op = "reorder" /\ last.parentId # Null
                            /\ last.parentId \notin IdsOf(last.pre))
          => model = last.pre

\* The place of the parent a reorder names: <<>> for null.
ParentPlace(components, parentId) ==
    IF parentId = Null THEN <<>>
    ELSE CHOOSE p \in Paths(components) : NodeAt(components, p).id = parentId

\* reorder(p, a, b) left p's sibling sequence with the same ids, each as
\* often, and changed nothing but that sequence.
ReorderPermutes ==
    LET F == last.pre
        P == ParentPlace(F, last.parentId)
    IN  /\ SameIdMultiset(SiblingsUnder(model, P), SiblingsUnder(F, P))
        /\ model = SetSiblings(F, P, SiblingsUnder(model, P))

\* The parent a reorder names is null or the id of a node of the forest.
ReorderNamesAParent ==
    /\ last.op = "reorder"
    /\ last.parentId = Null \/ last.parentId \in IdsOf(last.pre)

\* C3, as stated: for every parent p (null or the id of a node) and every
\* pair of indices a, b, reorder(p, a, b) permutes p's sibling sequence and
\* changes nothing else.
ReorderIsPermutation ==
    ReorderNamesAParent => ReorderPermutes

\* C3, amended: the same for every fromIndex a that is the index of an
\* element of p's sibling sequence (0 <= a < its length) and every toIndex b.
ReorderIsPermutationInRange ==
    (/\ ReorderNamesAParent
     /\ 0 <= last.fromIndex
     /\ last.fromIndex <
            Len(SiblingsUnder(last.pre, ParentPlace(last.pre, last.parentId))))
    => ReorderPermutes

\* C3's case: an element of a nested sequence moved to another index, with
\* a toIndex beyond the end.
ReorderMovedNested ==
    /\ ReorderNamesAParent
    /\ last.parentId # Null
    /\ last.fromIndex = 0
    /\ last.toIndex = MaxIndex
    /\ Len(SiblingsUnder(last.pre, ParentPlace(last.pre, last.parentId))) = 3
    /\ model # last.pre

\* C4: addPrimitive(k) leaves the roots it found followed by one new root,
\* and findComponentById with the new node's id returns that node: kind k,
\* position (0,0,0), rotation (0,0,0), scale (1,1,1), no children.
AddedNodeIsFound ==
    last.op = "addPrimitive" =>
        /\ Len(model) = Len(last.pre) + 1
        /\ SubSeq(model, 1, Len(last.pre)) = last.pre
        /\ model[Len(model)].id = last.id
        /\ findComponentById(model, last.id) = <<model[Len(model)]>>
        /\ LET found == findComponentById(model, last.id)[1]
           IN  /\ found.type = last.type
               /\ found.position = <<0, 0, 0>>
               /\ found.rotation = <<0, 0, 0>>
               /\ found.scale = <<1, 1, 1>>
               /\ found.children = <<>>

\* C5: no two nodes of the forest carry the same id.
IdsAreUnique ==
    Cardinality(IdsOf(model)) = NodeCount(model)

RECURSIVE ObjectPaths(_)
\* The places of a scene graph's objects, as Paths gives a forest's.
ObjectPaths(objects) ==
    UNION { {<<i>>} \cup
            { <<i>> \o q :
                q \in (IF objects[i].object = "Group"
                       THEN ObjectPaths(objects[i].children) ELSE {}) }
          : i \in 1..Len(objects) }

RECURSIVE ObjectAt(_, _)
ObjectAt(objects, path) ==
    IF Len(path) = 1 THEN objects[path[1]]
    ELSE ObjectAt(objects[path[1]].children, Tail(path))

\* The transform a node or a mesh carries.
Transform(o) ==
    [position |-> o.position, rotation |-> o.rotation, scale |-> o.scale]

\* C6: the scene built for a forest holds as many meshes as the forest has
\* nodes that are not groups, at any depth; for each such node as many
\* meshes carry its position, rotation and scale as nodes do; it holds as
\* many containers as the forest has nodes with a child; and it is empty
\* for the empty forest.
SceneMaterializesForest ==
    last.op = "onExport" =>
        LET F == last.pre
            S == last.scene[1].children
            shaped == {p \in Paths(F) : NodeAt(F, p).type # "group"}
            parents == {p \in Paths(F) : Len(NodeAt(F, p).children) > 0}
            meshes == {q \in ObjectPaths(S) : ObjectAt(S, q).object = "Mesh"}
            groups == {q \in ObjectPaths(S) : ObjectAt(S, q).object = "Group"}
        IN  /\ Cardinality(meshes) = Cardinality(shaped)
            /\ \A p \in shaped :
                  Cardinality({q \in meshes :
                      Transform(ObjectAt(S, q)) = Transform(NodeAt(F, p))})
                  = Cardinality({r \in shaped :
                      Transform(NodeAt(F, r)) = Transform(NodeAt(F, p))})
            /\ Cardinality(groups) = Cardinality(parents)
            /\ (F = <<>> => S = <<>>)

\* C6's case: a forest with a shape three levels down under two groups and
\* with a shape that has a child of its own was materialized.
SceneOfNestedForest ==
    /\ last.op = "onExport"
    /\ \E p \in Paths(last.pre) :
          /\ Len(p) = 3
          /\ NodeAt(last.pre, p).type = "cube"
          /\ NodeAt(last.pre, ParentPath(p)).type = "group"
    /\ \E p \in Paths(last.pre) :
          /\ NodeAt(last.pre, p).type = "cube"
          /\ Len(NodeAt(last.pre, p).children) > 0

\* C7: a step that takes an export request or runs an exporter's callback
\* leaves the forest and the selected id as they were.
ExportLeavesForest ==
    [][(nExports' # nExports \/ jobs' # jobs) =>
          (model' = model /\ selectedComponentId' = selectedComponentId)]_vars

\* C7's case: an export whose exporter threw, with nodes in the forest and
\* one of them selected.
ExportFailedOnForest ==
    /\ last.op = "onExport"
    /\ last.outcome = "parseThrows"
    /\ model # <<>>
    /\ selectedComponentId # Null

NoUrlLeftUnreleased ==
    liveUrls = {}

\* A sequence with the elements at two indices (from 1) exchanged.
Exchange(s, a, b) ==
    [k \in 1..Len(s) |-> IF k = a THEN s[b] ELSE IF k = b THEN s[a] ELSE s[k]]

\* C10: a press of the up (down) button of the node at index i of its
\* sibling sequence calls reorder with the id of the node's parent (null
\* for a root) and (i, i-1) (resp. (i, i+1)), indices of that sequence, and
\* exchanges the node with its neighbour there, nothing else changing.
PressMovesWithinOwnSiblings ==
    last.op = "pressButton" =>
        LET F == last.pre
            P == ParentPath(last.path)
            i == last.path[Len(last.path)] - 1
            j == IF last.dir = "up" THEN i - 1 ELSE i + 1
            siblings == SiblingsUnder(F, P)
        IN  /\ last.parentId = (IF P = <<>> THEN Null ELSE NodeAt(F, P).id)
            /\ last.fromIndex = i
            /\ last.toIndex = j
            /\ 0 <= j
            /\ j < Len(siblings)
            /\ model = SetSiblings(F, P, Exchange(siblings, i + 1, j + 1))

\* ------------------------------------------------------------------ C11

\* C11: no sequence of user events removes a node. Every step of the
\* application (addPrimitive, an edit in the property editor, a press of a
\* reorder button, a change of selection, an export, a glb callback, a
\* render, in any interleaving, several events before the next render
\* included) leaves every id of the forest in the forest.
NoNodeIsRemoved ==
    [][IdsOf(model) \subseteq IdsOf(model')]_vars

====
